---------------------------- MODULE Spec2Model ----------------------------
(* A state-machine model of programs/main.c, the gzip-compatible front end *)
(* of zstdmt: option parsing, the driving loop of main, treat_stdin,        *)
(* treat_file, check_overwrite and do_compress / do_decompress, over an    *)
(* abstract file system and an abstract codec engine.                      *)
EXTENDS Integers, Sequences, FiniteSets, TLC

VARIABLES
    pc,             \* position of the (single-threaded) program
    opt_mode, opt_stdout, opt_force, opt_keep, opt_iterations, opt_suffix,
    args,           \* argv[optind..argc-1], the named files
    files,          \* main's local `files` (count, then index into args)
    exit_code, errmsg, fin, fout, global_fout,
    local_fout, filename, fn2,      \* locals of treat_file / treat_stdin
    yes,            \* local of check_overwrite
    asked,          \* check_overwrite prompted the user in the current Job
    cctx, dctx,     \* the codec context pointers
    caller,         \* which function called do_compress / do_decompress
    fs,             \* the file system: path -> kind of file, "unknown"
                    \* until the process first touches the path
    stdout_tty,     \* IS_CONSOLE(stdout)
    stdin_eof,      \* standard input is at end-of-input
    status,         \* the process exit status, NotExited while running
    panic_msg,      \* the message of the panic() that ended the process
    job_fs,         \* the file system when the current Job started
    outcome,        \* how the last Job finished, "running" while it runs
    any_failed, any_skipped,        \* some Job finished in Error / Skipped
    any_declined,   \* in some Job the user answered no to the prompt
    calls,          \* engine calls of the current Job, in order
    engine_used,    \* some engine call was made by the process
    stdin_calls,    \* number of calls of treat_stdin
    derived,        \* result of remove_suffix (naming specification only)
    in_state,       \* the stream the current Job opened with fopen(.., "rb")
    out_state,      \* the stream the current Job opened with fopen(.., "wb")
    probe,          \* what check_overwrite's fopen(.., "r") found in this Job
    answer,         \* the first y/n the user gave to the prompt in this Job
    job_log,        \* the arguments of the calls of treat_file, in order
    iterations,     \* opt_iterations as clamped at line 740, before the loop
    opt_level, levelnumbers, opt_threads,
    cpucount,       \* what getcpucount() returns
    threads_arg     \* the argument of the last -T option, NoArg without one

vars == <<pc, opt_mode, opt_stdout, opt_force, opt_keep, opt_iterations,
          opt_suffix, args, files, exit_code, errmsg, fin, fout, global_fout,
          local_fout, filename, fn2, yes, asked, cctx, dctx, caller, fs, stdout_tty,
          stdin_eof, status, panic_msg, job_fs, outcome, any_failed,
          any_skipped, any_declined, calls, engine_used, stdin_calls,
          derived, in_state, out_state, probe, answer, job_log, iterations,
          opt_level, levelnumbers, opt_threads, cpucount, threads_arg>>

optVars == <<opt_mode, opt_stdout, opt_force, opt_keep, opt_suffix>>
envVars == <<stdout_tty, args>>
ghostVars == <<any_failed, any_skipped, any_declined, engine_used,
               stdin_calls>>
\* the numeric options -0..-9 and -T, and the host's processor count
numVars == <<opt_level, levelnumbers, opt_threads, cpucount, threads_arg>>
\* the streams of the current Job and the record of the Jobs
resVars == <<in_state, out_state, probe, answer, job_log, iterations>>

----------------------------------------------------------------------------
(* Bounds of the model *)

\* at most this many files are named on the command line
MaxFiles == 2
\* the argument of -i ranges over -1..MaxIterArg
MaxIterArg == 2
\* the file list times the iteration count is at most this many Jobs
MaxJobs == 3
\* names of the naming specification have at most this many characters
MaxNameLen == 3
\* suffixes of the naming specification have at most this many characters
MaxSuffixLen == 2
\* at most this many level digits (-0..-9) are given on the command line
MaxDigits == 2

----------------------------------------------------------------------------
(* Program constants *)

E_OK == 0
E_ERROR == 1
E_WARNING == 2

MODE_COMPRESS == 1
MODE_DECOMPRESS == 2
MODE_LIST == 3
MODE_TEST == 4

MAX_ITERATIONS == 1000

\* the default suffix (SUFFIX of platform.h)
SUFFIX == <<".", "z", "s", "t">>

NULL == "NULL"
\* a name pointer that is 0 (fn2 before a name is derived)
NoName == <<>>
NotExited == -1
PANIC_STATUS == 1
USAGE_STATUS == 0

\* the fallback extension of remove_suffix
DotOut == <<".", "o", "u", "t">>

\* the name that selects standard input in treat_file
Dash == <<"-">>

\* the initial value of opt_level, and the limits of platform.h
LEVEL_DEF == 3
LEVEL_MIN == 1
LEVEL_MAX == 22
THREAD_MAX == 128

\* no -T option was given; <<n>> is the argument of the last -T otherwise
NoArg == <<>>

----------------------------------------------------------------------------
(* Naming: has_suffix, add_suffix, remove_suffix *)

has_suffix_strict(name, suffix) ==
    LET flen == Len(name)
        xlen == Len(suffix)
    IN  IF flen <= xlen THEN FALSE
        ELSE SubSeq(name, flen - xlen + 1, flen) = suffix

has_suffix(name, suffix) ==
    LET flen == Len(name)
        xlen == Len(suffix)
    IN  IF flen < xlen THEN FALSE
        ELSE SubSeq(name, flen - xlen + 1, flen) = suffix

add_suffix(name) == name \o opt_suffix

\* remove_suffix for a given value of opt_suffix
Strip(name, suffix) ==
    IF has_suffix(name, suffix)
    THEN SubSeq(name, 1, Len(name) - Len(suffix))
    ELSE name \o DotOut

remove_suffix(name) == Strip(name, opt_suffix)

----------------------------------------------------------------------------
(* The universe of the driver model: file names, suffixes, paths *)

FileNames == {<<"a">>, <<"a">> \o SUFFIX, Dash}
SuffixArgs == {<<>>}
SuffixValues == {SUFFIX} \cup SuffixArgs

Paths == UNION {{n, n \o s, Strip(n, s)} : <<n, s>> \in FileNames \X SuffixValues}

SeqsUpTo(S, k) == UNION {[1..i -> S] : i \in 0..k}

\* what a path can hold when the program starts: nothing, a regular file,
\* a directory, or another kind of file
InitialKinds == {"absent", "reg", "dir", "special"}

\* Besides these, "new" is a regular file created or truncated by this
\* process. The file system is not changed by anyone else while the program
\* runs, so what a path held at the start is drawn when the process first
\* touches it.
KindsOf(path) == IF fs[path] = "unknown" THEN InitialKinds ELSE {fs[path]}

\* the file system f, with the path seen to hold a file of this kind
Observed(f, path, kind) ==
    IF f[path] = "unknown" THEN [f EXCEPT ![path] = kind] ELSE f

----------------------------------------------------------------------------
(* check_infile: the lstat classification of the input *)

check_infile(kind) ==
    CASE kind = "absent" -> "No such file or directory"
      [] kind = "dir" -> "Is a directory"
      [] kind \in {"reg", "new"} -> NULL
      [] OTHER -> "Is not regular file"

IS_CONSOLE(stream) == stream = "stdout" /\ stdout_tty

\* check_stdout panics when fout is a terminal and -f is absent
check_stdout(stream) == IS_CONSOLE(stream) /\ ~opt_force

----------------------------------------------------------------------------
(* Initial state: the globals as initialised at lines 28-65, the defaults  *)
(* main derives from the program name, and the environment                *)

ProgNames == {"zstdmt", "unzstdmt", "zstdcat"}

Init ==
    /\ pc = "getopt"
    /\ \E progname \in ProgNames :
          /\ opt_mode = IF progname = "zstdmt" THEN MODE_COMPRESS
                        ELSE MODE_DECOMPRESS
          /\ opt_stdout = (progname = "zstdcat")
          /\ opt_force = (progname = "zstdcat")
    /\ opt_keep = FALSE
    /\ opt_iterations = 1
    /\ opt_suffix = SUFFIX
    /\ args \in SeqsUpTo(FileNames, MaxFiles)
    /\ Len(args) <= MaxJobs
    /\ files = 0
    /\ exit_code = E_OK
    /\ errmsg = NULL
    /\ fin = NULL
    /\ fout = NULL
    /\ global_fout = FALSE
    /\ local_fout = NULL
    /\ filename = NoName
    /\ fn2 = NoName
    /\ yes = -1
    /\ asked = FALSE
    /\ cctx = NULL
    /\ dctx = NULL
    /\ caller = NULL
    /\ fs = [p \in Paths |-> "unknown"]
    /\ stdout_tty \in BOOLEAN
    /\ stdin_eof = FALSE
    /\ status = NotExited
    /\ panic_msg = NULL
    /\ job_fs = fs
    /\ outcome = "none"
    /\ any_failed = FALSE
    /\ any_skipped = FALSE
    /\ any_declined = FALSE
    /\ calls = <<>>
    /\ engine_used = FALSE
    /\ stdin_calls = 0
    /\ derived = NoName
    /\ in_state = "none"
    /\ out_state = "none"
    /\ probe = "none"
    /\ answer = "none"
    /\ job_log = <<>>
    /\ iterations = opt_iterations
    /\ opt_level = LEVEL_DEF
    /\ levelnumbers = 0
    /\ cpucount = 1
    /\ opt_threads = cpucount
    /\ threads_arg = NoArg

----------------------------------------------------------------------------
(* panic(): print and exit(1) *)

panic(msg) ==
    /\ pc' = "exit_panic"
    /\ status' = PANIC_STATUS
    /\ panic_msg' = msg

jobVars == <<exit_code, errmsg, fin, fout, global_fout, local_fout, filename,
             fn2, yes, asked, cctx, dctx, caller, fs, stdin_eof, job_fs, outcome,
             calls, derived>>

----------------------------------------------------------------------------
(* main: the getopt loop, one action per case of the switch *)

OptionStep ==
    /\ pc = "getopt"
    /\ UNCHANGED <<pc, envVars, numVars, resVars, files, status, panic_msg, jobVars, ghostVars>>

\* case 'c'
OptStdout ==
    /\ OptionStep
    /\ opt_stdout' = TRUE
    /\ UNCHANGED <<opt_mode, opt_force, opt_keep, opt_iterations, opt_suffix>>

\* case 'd'
OptDecompress ==
    /\ OptionStep
    /\ opt_mode' = MODE_DECOMPRESS
    /\ UNCHANGED <<opt_stdout, opt_force, opt_keep, opt_iterations, opt_suffix>>

\* case 'z'
OptCompress ==
    /\ OptionStep
    /\ opt_mode' = MODE_COMPRESS
    /\ UNCHANGED <<opt_stdout, opt_force, opt_keep, opt_iterations, opt_suffix>>

\* case 'f'
OptForce ==
    /\ OptionStep
    /\ opt_force' = TRUE
    /\ UNCHANGED <<opt_mode, opt_stdout, opt_keep, opt_iterations, opt_suffix>>

\* case 'k'
OptKeep ==
    /\ OptionStep
    /\ opt_keep' = TRUE
    /\ UNCHANGED <<opt_mode, opt_stdout, opt_force, opt_iterations, opt_suffix>>

\* case 'l'
OptList ==
    /\ OptionStep
    /\ opt_mode' = MODE_LIST
    /\ opt_keep' = TRUE
    /\ UNCHANGED <<opt_stdout, opt_force, opt_iterations, opt_suffix>>

\* case 't'
OptTest ==
    /\ OptionStep
    /\ opt_mode' = MODE_TEST
    /\ opt_keep' = TRUE
    /\ UNCHANGED <<opt_stdout, opt_force, opt_iterations, opt_suffix>>

\* case 'S'
OptSuffix ==
    /\ OptionStep
    /\ \E optarg \in SuffixArgs : opt_suffix' = optarg
    /\ UNCHANGED <<opt_mode, opt_stdout, opt_force, opt_keep, opt_iterations>>

\* case 'i'
OptIterations ==
    /\ OptionStep
    /\ \E optarg \in -1..MaxIterArg :
          /\ optarg * Len(args) <= MaxJobs
          /\ opt_iterations' = optarg
    /\ UNCHANGED <<opt_mode, opt_stdout, opt_force, opt_keep, opt_suffix>>

\* cases 'h', 'L', 'V', 'H' and default: print and exit(0)
OptUsage ==
    /\ pc = "getopt"
    /\ pc' = "exit_usage"
    /\ status' = USAGE_STATUS
    /\ UNCHANGED <<optVars, opt_iterations, envVars, numVars, resVars, files, panic_msg,
                   jobVars, ghostVars>>

----------------------------------------------------------------------------
(* main, lines 723-768: clamp the options, count the files, set up the     *)
(* global destination                                                      *)

ClampIterations(n) ==
    IF n < 1 THEN 1 ELSE IF n > MAX_ITERATIONS THEN MAX_ITERATIONS ELSE n

EndOptions ==
    /\ pc = "getopt"
    /\ opt_iterations' = ClampIterations(opt_iterations)
    /\ files' = Len(args)
    /\ IF opt_mode \in {MODE_LIST, MODE_TEST}
       THEN \E opened \in BOOLEAN :
               IF opened
               THEN /\ fout' = "devnull"
                    /\ global_fout' = TRUE
                    /\ pc' = "main_work"
                    /\ UNCHANGED <<status, panic_msg>>
               ELSE /\ fout' = NULL
                    /\ global_fout' = opt_stdout
                    /\ panic("Opening output file failed!")
       ELSE /\ fout' = IF opt_stdout THEN "stdout" ELSE fout
            /\ global_fout' = opt_stdout
            /\ pc' = "main_work"
            /\ UNCHANGED <<status, panic_msg>>
    /\ iterations' = opt_iterations'
    /\ UNCHANGED <<optVars, envVars, numVars, in_state, out_state, probe,
                   answer, job_log, exit_code, errmsg, fin, local_fout,
                   filename, fn2, yes, asked, cctx, dctx, caller, fs, stdin_eof,
                   job_fs, outcome, calls, derived, ghostVars>>

----------------------------------------------------------------------------
(* main, lines 770-788: standard input once, or the file list repeated     *)

\* line 772: standard input cannot be combined with -i
StdinIterationsNeverRejected == FALSE

StdinIterationsRejected == opt_iterations # 1

\* files == 0
MainStdin ==
    /\ pc = "main_work"
    /\ files = 0
    /\ IF StdinIterationsRejected
       THEN panic("You can not use stdin together with the -i option.")
       ELSE /\ pc' = "treat_stdin"
            /\ UNCHANGED <<status, panic_msg>>
    /\ UNCHANGED <<optVars, opt_iterations, envVars, numVars, resVars, files, jobVars, ghostVars>>

\* files != 0: enter for (;;), files = optind
MainFiles ==
    /\ pc = "main_work"
    /\ files # 0
    /\ files' = 1
    /\ pc' = "main_while"
    /\ UNCHANGED <<optVars, opt_iterations, envVars, numVars, resVars, status, panic_msg,
                   jobVars, ghostVars>>

ListDoneEarly == files >= Len(args)

\* line 781: while (files < argc) is over; `files` counts from 1 here
ListDone == files > Len(args)

\* while (files < argc) treat_file(argv[files++]);  treat_file's entry,
\* lines 474-478, resets errmsg
MainCallTreatFile ==
    /\ pc = "main_while"
    /\ ~ListDone
    /\ filename' = args[files]
    /\ files' = files + 1
    /\ local_fout' = NULL
    /\ fn2' = NoName
    /\ errmsg' = NULL
    /\ job_fs' = fs
    /\ outcome' = "running"
    /\ calls' = <<>>
    /\ yes' = -1
    /\ asked' = FALSE
    /\ caller' = NULL
    /\ job_log' = Append(job_log, args[files])
    /\ in_state' = "none"
    /\ out_state' = "none"
    /\ probe' = "none"
    /\ answer' = "none"
    /\ pc' = "tf_in"
    /\ UNCHANGED <<optVars, opt_iterations, envVars, numVars, iterations,
                   status, panic_msg,
                   exit_code, fin, fout, global_fout, cctx, dctx,
                   fs, stdin_eof, derived, ghostVars>>

\* the list is done: opt_iterations--, break at 0, else files = optind
MainNextIteration ==
    /\ pc = "main_while"
    /\ ListDone
    /\ opt_iterations' = opt_iterations - 1
    /\ IF opt_iterations' = 0
       THEN pc' = "main_end" /\ files' = files
       ELSE pc' = "main_while" /\ files' = 1
    /\ UNCHANGED <<optVars, envVars, numVars, resVars, status, panic_msg, jobVars, ghostVars>>

\* line 808: exit(exit_code)
MainExit ==
    /\ pc = "main_end"
    /\ pc' = "exit_main"
    /\ status' = exit_code
    /\ UNCHANGED <<optVars, opt_iterations, envVars, numVars, resVars, files, panic_msg,
                   jobVars, ghostVars>>

----------------------------------------------------------------------------
(* treat_file *)

\* a return of treat_file, with the Job's outcome recorded
Failures == {"err_infile", "err_open_in", "err_open_out", "err_create",
             "err_run"}
Skips == {"skip_suffixed", "skip_denied"}

\* the user was asked and answered no
Declined == asked /\ yes = 0

Return(oc) ==
    /\ pc' = "main_while"
    /\ outcome' = oc
    /\ any_failed' = (any_failed \/ oc \in Failures)
    /\ any_skipped' = (any_skipped \/ oc \in Skips)
    /\ any_declined' = (any_declined \/ Declined)

\* lines 480-495: set up fin
TreatFileInput ==
    /\ pc = "tf_in"
    /\ IF filename = Dash
       THEN /\ fin' = "stdin"
            /\ pc' = "tf_out"
            /\ UNCHANGED <<errmsg, fs, job_fs, outcome, any_failed,
                           any_skipped, any_declined, in_state>>
       ELSE \E kind \in KindsOf(filename) :
               /\ fs' = Observed(fs, filename, kind)
               /\ job_fs' = Observed(job_fs, filename, kind)
               /\ errmsg' = check_infile(kind)
               /\ IF errmsg' # NULL
                  THEN Return("err_infile") /\ UNCHANGED <<fin, in_state>>
                  ELSE /\ \E opened \in BOOLEAN :
                             /\ fin' = IF opened THEN "file" ELSE NULL
                             /\ in_state' = IF opened THEN "open" ELSE in_state
                       /\ pc' = "tf_out"
                       /\ UNCHANGED <<outcome, any_failed, any_skipped, any_declined>>
    /\ UNCHANGED <<optVars, opt_iterations, envVars, numVars, out_state, probe,
                   answer, job_log, iterations, files, status, panic_msg,
                   exit_code, fout, global_fout, local_fout, filename, fn2,
                   yes, asked, cctx, dctx, caller, stdin_eof, calls,
                   derived, engine_used, stdin_calls>>

\* line 505: an input that already carries the suffix is left alone
AlreadySuffixed == has_suffix(filename, opt_suffix) /\ ~opt_force

\* lines 497-510 and 518-519: the global destination, or the derived name
TreatFileOutput ==
    /\ pc = "tf_out"
    /\ IF global_fout
       THEN /\ local_fout' = fout
            /\ IF check_stdout(fout)
               THEN panic("Data not written to terminal. Use -f to force!")
               ELSE pc' = "tf_chk" /\ UNCHANGED <<status, panic_msg>>
            /\ UNCHANGED <<fn2, outcome, any_failed, any_skipped,
                                     any_declined>>
       ELSE /\ UNCHANGED <<local_fout, status, panic_msg>>
            /\ CASE opt_mode = MODE_COMPRESS /\ AlreadySuffixed ->
                      Return("skip_suffixed") /\ fn2' = fn2
                 [] opt_mode = MODE_COMPRESS /\ ~AlreadySuffixed ->
                      /\ fn2' = add_suffix(filename)
                      /\ pc' = "check_overwrite"
                      /\ UNCHANGED <<outcome, any_failed, any_skipped, any_declined>>
                 [] opt_mode = MODE_DECOMPRESS ->
                      /\ fn2' = remove_suffix(filename)
                      /\ pc' = "check_overwrite"
                      /\ UNCHANGED <<outcome, any_failed, any_skipped, any_declined>>
                 [] OTHER ->
                      /\ pc' = "tf_chk"
                      /\ UNCHANGED <<fn2, outcome, any_failed, any_skipped,
                                     any_declined>>
    /\ UNCHANGED <<optVars, opt_iterations, envVars, numVars, resVars, files, exit_code, errmsg,
                   fin, fout, global_fout, filename, yes, asked, cctx, dctx, caller,
                   fs, stdin_eof, job_fs, calls, derived, engine_used, stdin_calls>>

----------------------------------------------------------------------------
(* check_overwrite; its return value is left in `yes` *)

ForcedNever == FALSE

\* line 395: force, so always okay
Forced == opt_force

\* lines 389-409: -f, then the probe fopen(filename, "r")
CheckOverwrite ==
    /\ pc = "check_overwrite"
    /\ IF Forced
       THEN yes' = 1 /\ pc' = "tf_ovw" /\ UNCHANGED <<fs, job_fs, probe>>
       ELSE \E kind \in KindsOf(fn2) :
               /\ fs' = Observed(fs, fn2, kind)
               /\ job_fs' = Observed(job_fs, fn2, kind)
               /\ IF kind = "absent"
                  THEN yes' = 1 /\ pc' = "tf_ovw" /\ probe' = "absent"
                  ELSE \E opened \in BOOLEAN :
                          IF opened
                          THEN yes' = -1 /\ pc' = "prompt" /\ probe' = "opened"
                          ELSE yes' = 0 /\ pc' = "tf_ovw" /\ probe' = "failed"
    /\ asked' = (pc' = "prompt")
    /\ UNCHANGED <<optVars, opt_iterations, envVars, numVars, in_state, out_state,
                   answer, job_log, iterations, files, status, panic_msg,
                   exit_code, errmsg, fin, fout, global_fout, local_fout,
                   filename, fn2, cctx, dctx, caller, stdin_eof, outcome,
                   calls, derived, ghostVars>>

\* what getchar() can return as the first character of an answer line
AnswerChars == {"y", "n", "other", "EOF"}

\* lines 412-428: one round of the prompt loop: the first character decides,
\* the rest of the line is discarded up to '\n' or EOF
Prompt ==
    /\ pc = "prompt"
    /\ \E c \in AnswerChars, hit_eof \in BOOLEAN :
          /\ stdin_eof => c = "EOF"
          /\ c = "EOF" => hit_eof
          /\ yes' = IF c = "y" THEN 1 ELSE IF c = "n" THEN 0 ELSE yes
          /\ answer' = IF c \in {"y", "n"} THEN c ELSE answer
          /\ stdin_eof' = (stdin_eof \/ hit_eof)
    /\ pc' = IF yes' # -1 THEN "tf_ovw" ELSE "prompt"
    /\ UNCHANGED <<optVars, opt_iterations, envVars, numVars, in_state, out_state,
                   probe, job_log, iterations, files, status, panic_msg,
                   exit_code, errmsg, fin, fout, global_fout, local_fout,
                   filename, fn2, asked, cctx, dctx, caller, fs, job_fs,
                   outcome, calls, derived, ghostVars>>

----------------------------------------------------------------------------
(* treat_file, continued *)

OverwriteNeverDenied == FALSE

\* lines 511 and 520: check_overwrite(fn2) == 0
OverwriteDenied == yes = 0

\* fopen(path, "wb") can succeed unless the path is a directory
CanOpenForWriting(kind) == IF kind = "dir" THEN {FALSE} ELSE BOOLEAN

\* the file system after fopen(path, "wb") succeeded: a regular file is
\* created or truncated, a special file is left as it is
Truncated(path, kind) ==
    [fs EXCEPT ![path] = IF kind = "special" THEN kind ELSE "new"]

\* lines 511-517 and 520-526: skip on denial, else open the destination
TreatFileOverwrite ==
    /\ pc = "tf_ovw"
    /\ IF OverwriteDenied
       THEN /\ exit_code' = E_WARNING
            /\ Return("skip_denied")
            /\ UNCHANGED <<local_fout, fs, job_fs, out_state>>
       ELSE /\ \E kind \in KindsOf(fn2) :
                  /\ job_fs' = Observed(job_fs, fn2, kind)
                  /\ \E opened \in CanOpenForWriting(kind) :
                        IF opened
                        THEN /\ local_fout' = "file"
                             /\ out_state' = "open"
                             /\ fs' = Truncated(fn2, kind)
                        ELSE /\ local_fout' = NULL
                             /\ out_state' = out_state
                             /\ fs' = Observed(fs, fn2, kind)
            /\ pc' = "tf_chk"
            /\ UNCHANGED <<exit_code, outcome, any_failed, any_skipped,
                           any_declined>>
    /\ UNCHANGED <<optVars, opt_iterations, envVars, numVars, in_state, probe,
                   answer, job_log, iterations, files, status, panic_msg,
                   errmsg, fin, fout, global_fout, filename, fn2, yes, asked, cctx,
                   dctx, caller, stdin_eof, calls, derived,
                   engine_used, stdin_calls>>

\* line 530
InfileFailed == fin = NULL

OutfileFailedNever == FALSE

\* line 535
OutfileFailed == local_fout = NULL

\* lines 530-544: both streams must be open, then the codec is called
TreatFileCheck ==
    /\ pc = "tf_chk"
    /\ IF InfileFailed
       THEN /\ errmsg' = "Opening infile failed."
            /\ Return("err_open_in")
            /\ caller' = caller
       ELSE IF OutfileFailed
            THEN /\ errmsg' = "Opening outfile failed."
                 /\ Return("err_open_out")
                 /\ caller' = caller
            ELSE /\ pc' = IF opt_mode = MODE_COMPRESS
                          THEN "do_compress" ELSE "do_decompress"
                 /\ caller' = "treat_file"
                 /\ UNCHANGED <<errmsg, outcome, any_failed, any_skipped,
                                any_declined>>
    /\ UNCHANGED <<optVars, opt_iterations, envVars, numVars, resVars, files, status, panic_msg,
                   exit_code, fin, fout, global_fout, local_fout, filename,
                   fn2, yes, asked, cctx, dctx, fs, stdin_eof, job_fs, calls,
                   derived, engine_used, stdin_calls>>

----------------------------------------------------------------------------
(* do_compress and do_decompress *)

AllocMessages == {"Allocating compression context failed!",
                  "Allocating decompression context failed!"}

\* MT_getErrorString(ret) of a run that failed
RunMessages == {"compression failed", "decompression failed"}

\* the stream handed to the codec as `out`
CodecOut == IF caller = "treat_stdin" THEN fout ELSE local_fout

ReturnToCaller == pc' = IF caller = "treat_stdin" THEN "ts_post" ELSE "tf_post"

\* ReadData drains standard input when the codec reads from it
StdinDrained(ok) == IF fin # "stdin" THEN {FALSE} ELSE IF ok THEN {TRUE} ELSE BOOLEAN

\* lines 192-206 and 238-252: the engine calls of a run that succeeded; the
\* statistics accessors are called when `first && opt_timings`
AfterRun(timed) ==
    IF timed THEN <<"run", "stats", "free">> ELSE <<"run", "free">>

\* lines 176-189: MT_createCCtx
DoCompressCreate ==
    /\ pc = "do_compress"
    /\ IF errmsg # NULL
       THEN /\ ReturnToCaller
            /\ UNCHANGED <<errmsg, cctx, calls, engine_used>>
       ELSE /\ calls' = Append(calls, "create")
            /\ engine_used' = TRUE
            /\ \E created \in BOOLEAN :
                  IF created
                  THEN /\ cctx' = "live"
                       /\ pc' = "compress_run"
                       /\ errmsg' = errmsg
                  ELSE /\ cctx' = NULL
                       /\ errmsg' = "Allocating compression context failed!"
                       /\ ReturnToCaller
    /\ UNCHANGED <<optVars, opt_iterations, envVars, numVars, resVars, files, status, panic_msg,
                   exit_code, fin, fout, global_fout, local_fout, filename,
                   fn2, yes, asked, dctx, caller, fs, stdin_eof, job_fs, outcome,
                   derived, any_failed, any_skipped, any_declined,
                   stdin_calls>>

\* lines 191-208: MT_compressCCtx, then MT_freeCCtx on success only
DoCompressRun ==
    /\ pc = "compress_run"
    /\ \E ok \in BOOLEAN :
          /\ IF ok
             THEN /\ errmsg' = NULL
                  /\ cctx' = "freed"
                  /\ \E timed \in BOOLEAN :
                        calls' = calls \o AfterRun(timed)
             ELSE /\ errmsg' = "compression failed"
                  /\ cctx' = cctx
                  /\ calls' = Append(calls, "run")
          /\ \E drained \in StdinDrained(ok) :
                stdin_eof' = (stdin_eof \/ drained)
    /\ ReturnToCaller
    /\ UNCHANGED <<optVars, opt_iterations, envVars, numVars, resVars, files, status, panic_msg,
                   exit_code, fin, fout, global_fout, local_fout, filename,
                   fn2, yes, asked, dctx, caller, fs, job_fs, outcome, derived,
                   ghostVars>>

\* lines 222-235: MT_createDCtx
DoDecompressCreate ==
    /\ pc = "do_decompress"
    /\ IF errmsg # NULL
       THEN /\ ReturnToCaller
            /\ UNCHANGED <<errmsg, dctx, calls, engine_used>>
       ELSE /\ calls' = Append(calls, "create")
            /\ engine_used' = TRUE
            /\ \E created \in BOOLEAN :
                  IF created
                  THEN /\ dctx' = "live"
                       /\ pc' = "decompress_run"
                       /\ errmsg' = errmsg
                  ELSE /\ dctx' = NULL
                       /\ errmsg' = "Allocating decompression context failed!"
                       /\ ReturnToCaller
    /\ UNCHANGED <<optVars, opt_iterations, envVars, numVars, resVars, files, status, panic_msg,
                   exit_code, fin, fout, global_fout, local_fout, filename,
                   fn2, yes, asked, cctx, caller, fs, stdin_eof, job_fs, outcome,
                   derived, any_failed, any_skipped, any_declined,
                   stdin_calls>>

\* lines 237-254: MT_decompressDCtx, then MT_freeDCtx on success only
DoDecompressRun ==
    /\ pc = "decompress_run"
    /\ \E ok \in BOOLEAN :
          /\ IF ok
             THEN /\ errmsg' = NULL
                  /\ dctx' = "freed"
                  /\ \E timed \in BOOLEAN :
                        calls' = calls \o AfterRun(timed)
             ELSE /\ errmsg' = "decompression failed"
                  /\ dctx' = dctx
                  /\ calls' = Append(calls, "run")
          /\ \E drained \in StdinDrained(ok) :
                stdin_eof' = (stdin_eof \/ drained)
    /\ ReturnToCaller
    /\ UNCHANGED <<optVars, opt_iterations, envVars, numVars, resVars, files, status, panic_msg,
                   exit_code, fin, fout, global_fout, local_fout, filename,
                   fn2, yes, asked, cctx, caller, fs, job_fs, outcome, derived,
                   ghostVars>>

----------------------------------------------------------------------------
(* treat_file, lines 550-586: bookkeeping after the codec returned *)

\* line 551: remember, that we had some error
AfterCodec(code) == IF errmsg # NULL THEN E_ERROR ELSE code

\* line 573: remove input file
RemoveInfile == errmsg = NULL /\ ~opt_keep

RemoveOutfileNever == FALSE

\* line 577: remove outfile with errors
RemoveOutfile == errmsg # NULL /\ ~global_fout

\* the outcome of a Job whose codec call returned
JobResult ==
    IF errmsg = NULL THEN "ok"
    ELSE IF errmsg \in AllocMessages THEN "err_create" ELSE "err_run"

\* remove(path)
Removed(f, path) == [f EXCEPT ![path] = "absent"]

\* fclose(stream): the stream is released whatever fclose returns
Closed(state, ok) ==
    IF state = "open" THEN (IF ok THEN "closed" ELSE "close_failed")
    ELSE "closed_twice"

\* line 555: close instream
CloseInfile == fin # NULL /\ fin # "stdin"

\* line 560: close outstream
CloseOutfile == ~global_fout /\ local_fout # "stdout"

TreatFilePost ==
    /\ pc = "tf_post"
    /\ exit_code' = AfterCodec(exit_code)
    /\ in_state' = IF CloseInfile THEN Closed(in_state, TRUE) ELSE in_state
    /\ IF CloseOutfile
       THEN \E ok \in BOOLEAN : out_state' = Closed(out_state, ok)
       ELSE out_state' = out_state
    /\ LET fs1 == IF RemoveInfile THEN Removed(fs, filename) ELSE fs
       IN  fs' = IF RemoveOutfile THEN Removed(fs1, fn2) ELSE fs1
    /\ Return(JobResult)
    /\ UNCHANGED <<optVars, opt_iterations, envVars, numVars, probe, answer,
                   job_log, iterations, files, status, panic_msg,
                   errmsg, fin, fout, global_fout, local_fout, filename, fn2,
                   yes, asked, cctx, dctx, caller, stdin_eof, job_fs, calls, derived,
                   engine_used, stdin_calls>>

----------------------------------------------------------------------------
(* treat_stdin *)

\* lines 438-451: fin = stdin; fout = stdout, checked, only when fout is unset
TreatStdin ==
    /\ pc = "treat_stdin"
    /\ stdin_calls' = stdin_calls + 1
    /\ filename' = <<"(", "s", "t", "d", "i", "n", ")">>
    /\ fin' = "stdin"
    /\ job_fs' = fs
    /\ outcome' = "running"
    /\ calls' = <<>>
    /\ caller' = "treat_stdin"
    /\ fout' = IF fout = NULL THEN "stdout" ELSE fout
    /\ IF fout = NULL /\ check_stdout(fout')
       THEN panic("Data not written to terminal. Use -f to force!")
       ELSE /\ pc' = IF opt_mode = MODE_COMPRESS
                     THEN "do_compress" ELSE "do_decompress"
            /\ UNCHANGED <<status, panic_msg>>
    /\ in_state' = "none"
    /\ out_state' = "none"
    /\ probe' = "none"
    /\ answer' = "none"
    /\ UNCHANGED <<optVars, opt_iterations, envVars, numVars, job_log, iterations,
                   files, exit_code, errmsg,
                   global_fout, local_fout, fn2, yes, asked, cctx, dctx, fs,
                   stdin_eof, derived, any_failed, any_skipped, any_declined,
                   engine_used>>

\* lines 453-465
TreatStdinPost ==
    /\ pc = "ts_post"
    /\ exit_code' = AfterCodec(exit_code)
    /\ outcome' = JobResult
    /\ any_failed' = (any_failed \/ JobResult \in Failures)
    /\ pc' = "main_end"
    /\ UNCHANGED <<optVars, opt_iterations, envVars, numVars, resVars, files, status, panic_msg,
                   errmsg, fin, fout, global_fout, local_fout, filename, fn2,
                   yes, asked, cctx, dctx, caller, fs, stdin_eof, job_fs, calls,
                   derived, any_skipped, any_declined, engine_used,
                   stdin_calls>>

----------------------------------------------------------------------------
(* The program *)

Next ==
    \/ OptStdout \/ OptDecompress \/ OptCompress \/ OptForce \/ OptKeep
    \/ OptList \/ OptTest \/ OptSuffix \/ OptIterations \/ OptUsage
    \/ EndOptions
    \/ MainStdin \/ MainFiles \/ MainCallTreatFile \/ MainNextIteration
    \/ MainExit
    \/ TreatFileInput \/ TreatFileOutput \/ CheckOverwrite \/ Prompt
    \/ TreatFileOverwrite \/ TreatFileCheck \/ TreatFilePost
    \/ DoCompressCreate \/ DoCompressRun
    \/ DoDecompressCreate \/ DoDecompressRun
    \/ TreatStdin \/ TreatStdinPost

Spec == Init /\ [][Next]_vars

\* The program is one sequential process: while a statement can be executed,
\* the process executes it. The command line is finite, so the getopt loop
\* comes to its end (getopt returns -1, or an option that prints and exits).
FairSpec == Spec /\ WF_vars(Next) /\ WF_vars(EndOptions \/ OptUsage)

----------------------------------------------------------------------------
(* The naming functions on their own: a name and a suffix are drawn, the   *)
(* compressed name is derived from the name, and the decompressed name is  *)
(* derived from the compressed name or from the name itself                *)

Alphabet == {"a", ".", "z"}

NamingInit ==
    /\ pc = "name"
    /\ filename \in SeqsUpTo(Alphabet, MaxNameLen)
    /\ opt_suffix \in SeqsUpTo(Alphabet, MaxSuffixLen)
    /\ fn2 = NoName
    /\ derived = NoName
    /\ opt_mode = MODE_COMPRESS
    /\ opt_stdout = FALSE
    /\ opt_force = FALSE
    /\ opt_keep = FALSE
    /\ opt_iterations = 1
    /\ args = <<>>
    /\ files = 0
    /\ exit_code = E_OK
    /\ errmsg = NULL
    /\ fin = NULL
    /\ fout = NULL
    /\ global_fout = FALSE
    /\ local_fout = NULL
    /\ yes = -1
    /\ asked = FALSE
    /\ cctx = NULL
    /\ dctx = NULL
    /\ caller = NULL
    /\ fs = [p \in Paths |-> "unknown"]
    /\ stdout_tty = FALSE
    /\ stdin_eof = FALSE
    /\ status = NotExited
    /\ panic_msg = NULL
    /\ job_fs = fs
    /\ outcome = "none"
    /\ any_failed = FALSE
    /\ any_skipped = FALSE
    /\ any_declined = FALSE
    /\ calls = <<>>
    /\ engine_used = FALSE
    /\ stdin_calls = 0
    /\ in_state = "none"
    /\ out_state = "none"
    /\ probe = "none"
    /\ answer = "none"
    /\ job_log = <<>>
    /\ iterations = opt_iterations
    /\ opt_level = LEVEL_DEF
    /\ levelnumbers = 0
    /\ cpucount = 1
    /\ opt_threads = cpucount
    /\ threads_arg = NoArg

namingFrame == <<opt_mode, opt_stdout, opt_force, opt_keep, opt_iterations,
                 opt_suffix, args, files, exit_code, errmsg, fin, fout,
                 global_fout, local_fout, filename, yes, asked, cctx, dctx,
                 caller,
                 fs, stdout_tty, stdin_eof, status, panic_msg, job_fs,
                 outcome, any_failed, any_skipped, any_declined, calls,
                 engine_used,
                 stdin_calls, numVars, resVars>>

\* fn2 = add_suffix(filename), as in compress mode
NameCompressed ==
    /\ pc = "name"
    /\ fn2' = add_suffix(filename)
    /\ pc' = "compressed"
    /\ UNCHANGED <<derived, namingFrame>>

\* remove_suffix of the compressed name, as decompress mode would derive it
NameRoundTrip ==
    /\ pc = "compressed"
    /\ derived' = remove_suffix(fn2)
    /\ pc' = "roundtrip"
    /\ UNCHANGED <<fn2, namingFrame>>

\* remove_suffix of the name itself
NameDecompressed ==
    /\ pc = "name"
    /\ derived' = remove_suffix(filename)
    /\ pc' = "decompressed"
    /\ UNCHANGED <<fn2, namingFrame>>

NamingNext == NameCompressed \/ NameRoundTrip \/ NameDecompressed

NamingSpec == NamingInit /\ [][NamingNext]_vars

----------------------------------------------------------------------------
(* The numeric options on their own: main's lines 614-616, the cases of    *)
(* the digits, 'T' and 'i' in the getopt loop, and the clamps of lines     *)
(* 727-743. The level digits are bounded, so opt_level stays within int.   *)

\* what getcpucount() can return
CpuCounts == {0, 1, 4, THREAD_MAX + THREAD_MAX}

\* atoi(optarg) of -T and of -i
ThreadArgs == {-1, 0, 1, 2, THREAD_MAX, THREAD_MAX + 1}
IterationArgs == {-1, 0, 1, 2, MAX_ITERATIONS, MAX_ITERATIONS + 1}

\* lines 728-731
ClampLevel(n) ==
    IF n < LEVEL_MIN THEN LEVEL_MIN ELSE IF n > LEVEL_MAX THEN LEVEL_MAX ELSE n

\* lines 734-737
ClampThreads(n) ==
    IF n < 1 THEN 1 ELSE IF n > THREAD_MAX THEN THREAD_MAX ELSE n

NumericInit ==
    /\ pc = "numopts"
    /\ cpucount \in CpuCounts
    /\ opt_threads = cpucount
    /\ threads_arg = NoArg
    /\ opt_level = LEVEL_DEF
    /\ levelnumbers = 0
    /\ opt_iterations = 1
    /\ iterations = opt_iterations
    /\ opt_mode = MODE_COMPRESS
    /\ opt_stdout = FALSE
    /\ opt_force = FALSE
    /\ opt_keep = FALSE
    /\ opt_suffix = SUFFIX
    /\ args = <<>>
    /\ files = 0
    /\ exit_code = E_OK
    /\ errmsg = NULL
    /\ fin = NULL
    /\ fout = NULL
    /\ global_fout = FALSE
    /\ local_fout = NULL
    /\ filename = NoName
    /\ fn2 = NoName
    /\ derived = NoName
    /\ yes = -1
    /\ asked = FALSE
    /\ cctx = NULL
    /\ dctx = NULL
    /\ caller = NULL
    /\ fs = [p \in Paths |-> "unknown"]
    /\ stdout_tty = FALSE
    /\ stdin_eof = FALSE
    /\ status = NotExited
    /\ panic_msg = NULL
    /\ job_fs = fs
    /\ outcome = "none"
    /\ any_failed = FALSE
    /\ any_skipped = FALSE
    /\ any_declined = FALSE
    /\ calls = <<>>
    /\ engine_used = FALSE
    /\ stdin_calls = 0
    /\ in_state = "none"
    /\ out_state = "none"
    /\ probe = "none"
    /\ answer = "none"
    /\ job_log = <<>>

numericFrame == <<optVars, envVars, files, status, panic_msg, jobVars,
                  ghostVars, in_state, out_state, probe, answer, job_log>>

\* cases '0'..'9', lines 624-640
NumLevelDigit ==
    /\ pc = "numopts"
    /\ levelnumbers < MaxDigits
    /\ \E digit \in 0..9 :
          opt_level' = (IF levelnumbers = 0 THEN 0 ELSE opt_level * 10) + digit
    /\ levelnumbers' = levelnumbers + 1
    /\ UNCHANGED <<pc, opt_threads, cpucount, threads_arg, opt_iterations,
                   iterations, numericFrame>>

\* case 'T'
NumThreads ==
    /\ pc = "numopts"
    /\ \E optarg \in ThreadArgs :
          /\ opt_threads' = optarg
          /\ threads_arg' = <<optarg>>
    /\ UNCHANGED <<pc, opt_level, levelnumbers, cpucount, opt_iterations,
                   iterations, numericFrame>>

\* case 'i'
NumIterations ==
    /\ pc = "numopts"
    /\ \E optarg \in IterationArgs : opt_iterations' = optarg
    /\ UNCHANGED <<pc, opt_level, levelnumbers, opt_threads, cpucount,
                   threads_arg, iterations, numericFrame>>

\* lines 727-743: make the options valid
NumClamp ==
    /\ pc = "numopts"
    /\ opt_level' = ClampLevel(opt_level)
    /\ opt_threads' = ClampThreads(opt_threads)
    /\ opt_iterations' = ClampIterations(opt_iterations)
    /\ iterations' = opt_iterations'
    /\ pc' = "clamped"
    /\ UNCHANGED <<levelnumbers, cpucount, threads_arg, numericFrame>>

NumericNext == NumLevelDigit \/ NumThreads \/ NumIterations \/ NumClamp

NumericSpec == NumericInit /\ [][NumericNext]_vars

----------------------------------------------------------------------------
(* Properties *)

\* the process has ended: usage() and friends, panic(), or main's exit
Exited == pc \in {"exit_usage", "exit_panic", "exit_main"}

\* the ordering Error > Warning > Ok of the run status
Rank(code) == CASE code = E_OK -> 0 [] code = E_WARNING -> 1 [] OTHER -> 2

\* a Job has returned and no other Job has started since
JobDone == outcome \notin {"none", "running"}

\* the last Job was a call of treat_file on a file name other than "-"
NamedFileJob == JobDone /\ filename \in FileNames \ {Dash}

\* the source file of the last Job existed when the Job started and is gone
SourceDeleted == fs[filename] = "absent" /\ job_fs[filename] # "absent"

\* name ends with suffix
EndsWith(name, suffix) ==
    \E k \in 0..Len(name) : name = SubSeq(name, 1, k) \o suffix

\* C1: when at least one Job ended in failure, the process exits with code 1,
\* whatever the other Jobs did.
C1_FailureExitsOne == (Exited /\ any_failed) => status = 1

\* C2: when main exits and no Job failed, the exit code is 2 if some Job was
\* skipped (already suffixed, or overwrite denied) and 0 if all succeeded.
C2_SkipExitsTwo ==
    (pc = "exit_main" /\ ~any_failed) =>
        status = IF any_skipped THEN 2 ELSE 0

\* C3: after a Job of treat_file whose codec run failed, the destination the
\* Job opened does not exist when the destination was derived per file, and
\* the file system is as it was when the Job started when the destination is
\* the global stream.
C3_FailedRunRemovesOutput ==
    (outcome = "err_run" /\ caller = "treat_file") =>
        IF global_fout THEN fs = job_fs ELSE fs[fn2] = "absent"

C3_Witness ==
    /\ outcome = "err_run"
    /\ caller = "treat_file"
    /\ ~global_fout
    /\ calls = <<"create", "run">>
    /\ job_fs[fn2] = "reg"
    /\ fs[fn2] = "absent"

\* C4: when the user answered no to the overwrite prompt, the Job ends
\* skipped with the file system as it was when the Job started (destination
\* and source untouched), no output stream opened, no engine call, and a run
\* status of at least Warning, then and at process exit.
C4_DeclinedOverwrite ==
    /\ (Declined /\ JobDone) =>
          /\ outcome = "skip_denied"
          /\ fs = job_fs
          /\ local_fout = NULL
          /\ calls = <<>>
          /\ Rank(exit_code) >= Rank(E_WARNING)
    /\ (any_declined /\ pc \in {"exit_main", "exit_panic"}) =>
          status \in {E_WARNING, E_ERROR}

C4_Witness ==
    /\ Declined
    /\ JobDone
    /\ ~opt_force
    /\ job_fs[fn2] = "reg"
    /\ fs[fn2] = "reg"
    /\ fs[filename] = "reg"
    /\ pc = "exit_main"
    /\ status = E_WARNING

\* C5: the codec is never run (a context created, MT_compressCCtx or
\* MT_decompressDCtx about to be called) with a destination that is a
\* terminal unless -f was given.
C5_NoCodecOnTerminal ==
    pc \in {"compress_run", "decompress_run"}
        => ~(IS_CONSOLE(CodecOut) /\ ~opt_force)

\* C6: after a Job over a named file, the source file has been deleted if
\* and only if the Job finished Ok and keep-input is not set.
C6_SourceRemovedIffOk ==
    NamedFileJob => (SourceDeleted <=> (outcome = "ok" /\ ~opt_keep))

C8_AllocFailureAborts ==
    errmsg \in AllocMessages => (pc = "exit_panic" /\ status # 0)

\* C9: for a name that does not end with the suffix, remove_suffix of
\* add_suffix of the name is the name; and remove_suffix appends ".out" only
\* to a name that does not end with the suffix.
C9_SuffixRoundTrip ==
    /\ (pc = "roundtrip" /\ ~EndsWith(filename, opt_suffix)) =>
          derived = filename
    /\ (pc = "roundtrip" /\ derived = fn2 \o DotOut) =>
          ~EndsWith(fn2, opt_suffix)
    /\ (pc = "decompressed" /\ derived = filename \o DotOut) =>
          ~EndsWith(filename, opt_suffix)
    /\ (pc = "decompressed" /\ ~EndsWith(filename, opt_suffix)) =>
          derived = filename \o DotOut

C9_Witness ==
    /\ pc = "roundtrip"
    /\ Len(opt_suffix) = MaxSuffixLen
    /\ Len(filename) = Len(opt_suffix)
    /\ ~EndsWith(filename, opt_suffix)
    /\ fn2 # filename
    /\ derived = filename

\* C10: no step lowers the run status in the ordering Error > Warning > Ok.
C10_StatusMonotone == [][Rank(exit_code') >= Rank(exit_code)]_vars

\* the last Job was a call of treat_file, and it has returned
TreatFileJob == JobDone /\ job_log # <<>>

\* C11: no stream is closed twice, standard input and the global destination
\* are never closed by a Job, and when treat_file has returned, on whatever
\* path, neither the input stream nor the output stream the Job opened with
\* fopen is still open.
C11_StreamsClosed ==
    /\ in_state # "closed_twice"
    /\ out_state # "closed_twice"
    /\ fin = "stdin" => in_state = "none"
    /\ global_fout => out_state = "none"
    /\ TreatFileJob => (in_state # "open" /\ out_state # "open")

\* C12: at most one codec context is live at any time, and none is live
\* when a Job has ended or the process has exited through main.
C12_ContextDestroyed ==
    /\ ~(cctx = "live" /\ dctx = "live")
    /\ (JobDone \/ pc = "exit_main") => (cctx # "live" /\ dctx # "live")

\* C13: when a Job of treat_file with a per-file destination has ended in
\* error, for whatever reason, after it opened (created) its output file,
\* that file does not exist.
C13_ErrorRemovesOutput ==
    (TreatFileJob /\ outcome \in Failures /\ ~global_fout
        /\ out_state # "none") => fs[fn2] = "absent"

\* the engine calls a Job can have made so far
EngineOrders == {<<>>, <<"create">>, <<"create", "run">>,
                 <<"create", "run", "free">>,
                 <<"create", "run", "stats", "free">>}

\* C14: the engine calls of a Job are a prefix of create, run, (statistics,)
\* destroy; run is called only with both streams open and a context
\* created; after a failed create the Job made no call but create, after a
\* failed run none after run; a Job that was skipped, failed input
\* validation or could not open a stream made no engine call.
C14_EngineOrder ==
    /\ calls \in EngineOrders
    /\ (pc \in {"compress_run", "decompress_run"} \/ Len(calls) >= 2) =>
          (fin # NULL /\ CodecOut # NULL)
    /\ pc = "compress_run" => (cctx = "live" /\ calls = <<"create">>)
    /\ pc = "decompress_run" => (dctx = "live" /\ calls = <<"create">>)
    /\ errmsg \in AllocMessages => calls = <<"create">>
    /\ errmsg \in RunMessages => calls = <<"create", "run">>
    /\ (JobDone /\ outcome \in Skips \cup
            {"err_infile", "err_open_in", "err_open_out"}) => calls = <<>>

C14_Witness ==
    /\ TreatFileJob
    /\ outcome = "ok"
    /\ ~global_fout
    /\ in_state = "closed"
    /\ calls = <<"create", "run", "stats", "free">>

\* the file list repeated `iterations` times
ExpectedLog ==
    [i \in 1..(iterations * Len(args)) |-> args[((i - 1) % Len(args)) + 1]]

IsPrefix(s, t) == Len(s) <= Len(t) /\ s = SubSeq(t, 1, Len(s))

\* the driving loop of main is running, or the process ended after it began
FilesNamed == Len(args) > 0 /\ pc \notin {"getopt", "exit_usage"}

C16_NumericRanges ==
    pc = "clamped" =>
        /\ opt_threads \in 1..THREAD_MAX
        /\ (threads_arg = NoArg \/ threads_arg[1] < 1) =>
              opt_threads = ClampThreads(cpucount)
        /\ opt_level \in LEVEL_MIN..LEVEL_MAX
        /\ opt_iterations \in 1..MAX_ITERATIONS

\* C17: when check_overwrite has returned: with -f it allowed without
\* probing or prompting; without -f it probed, allowed without prompting
\* when no file was there, denied without prompting when the probe failed
\* for another reason, and prompted exactly when the target was there and
\* could be opened, the decision then being the user's first y/n answer.
C17_OverwriteDecision ==
    pc = "tf_ovw" =>
        /\ opt_force => (yes = 1 /\ probe = "none" /\ ~asked)
        /\ ~opt_force =>
              /\ probe # "none"
              /\ (probe = "absent") = (fs[fn2] = "absent")
              /\ probe = "absent" => (yes = 1 /\ ~asked)
              /\ probe = "failed" => (yes = 0 /\ ~asked)
              /\ probe = "opened" => (asked /\ answer \in {"y", "n"})
        /\ asked => (probe = "opened" /\ yes = IF answer = "y" THEN 1 ELSE 0)
        /\ ~asked => answer = "none"

C17_Witness ==
    /\ pc = "tf_ovw"
    /\ ~opt_force
    /\ asked
    /\ fs[fn2] = "reg"
    /\ answer = "y"
    /\ yes = 1
    /\ stdin_eof

\* C18: the prompt loop of check_overwrite always comes to a decision. Once
\* the answer stream is at end-of-input every later getchar() returns EOF,
\* so a round that ends undecided at end-of-input is repeated for ever:
\* the loop is never at its head, undecided, with the stream at
\* end-of-input.
C18_PromptReturns == ~(pc = "prompt" /\ yes = -1 /\ stdin_eof)

\* C19: in a Job over a named file with a per-file destination, the derived
\* destination path, which is the path the Job then opens for writing,
\* differs from the source path.
C19_DestinationDiffers ==
    (pc \in {"check_overwrite", "prompt", "tf_ovw", "tf_chk"}
        /\ ~global_fout /\ filename # Dash) => fn2 # filename

\* C20: after a Job over a named file whose fclose of the per-file output
\* stream reported failure, the source file is still present.
C20_RemovedOnlyIfCommitted ==
    (NamedFileJob /\ out_state = "close_failed") => ~SourceDeleted

=============================================================================
